---- MODULE Spec2Model ----
(***************************************************************************)
(* Model of the multicast api registry (ApiRegistryMulticast.go).          *)
(*                                                                         *)
(* The registry keeps two maps, each under its own sync.RWMutex:           *)
(*   apiRegs   : name -> slice of registrations seen on the network        *)
(*   ownedRegs : name -> the api this process announces                    *)
(* and runs three goroutines (listenMutlicast, cleanupExpiredRegLoop,      *)
(* resendOwnedRegistrationsLoop) next to the callers of the public         *)
(* methods.  Time is a discrete clock; one unit stands for 30 s.           *)
(***************************************************************************)
EXTENDS Integers, Sequences, FiniteSets, TLC

VARIABLES
    now,          \* the wall clock read by time.Now()
    apiRegs,      \* multicastApiRegistry.apiRegs
    apisRWMutex,  \* multicastApiRegistry.apisRWMutex
    lis,          \* the listenMutlicast goroutine
    cln,          \* the cleanupExpiredRegLoop goroutine
    qry,          \* a client goroutine calling GetAvailableApis / GetApisByApiName
    ownedRegs,         \* multicastApiRegistry.ownedRegs
    ownedRegsRWMutex,  \* multicastApiRegistry.ownedRegsRWMutex
    reg,          \* the goroutines calling RegisterApi
    rsd,          \* the resendOwnedRegistrationsLoop goroutine
    wire,         \* the latest conn.Write call, with its outcome
    announced,    \* the names whose send from RegisterApi has returned nil
    succeeded,    \* the names for which a RegisterApi call has returned nil
    net,          \* the network from an announcing peer registry to this listener
    discardedAt   \* when the listener last discarded a datagram, -1 for never

remoteVars == <<now, apiRegs, apisRWMutex, lis, cln, qry>>

ownedVars == <<ownedRegs, ownedRegsRWMutex, reg, rsd, wire, announced, succeeded>>

envVars == <<net, discardedAt>>

vars == <<remoteVars, ownedVars, envVars>>

----------------------------------------------------------------------------
(* Bounds of the model.                                                    *)

\* The clock stops advancing at MaxTime.
MaxTime == 3

\* Lifespans carried by received announcements (message.LifeSpan), in clock units.
LifeSpans == {1, 2}

\* The (name, version, sender IP, port) tuples that arrive on the socket.
RemoteApis ==
    { [name |-> "a", version |-> "1", ip |-> "10.0.0.1", port |-> 80],
      [name |-> "a", version |-> "2", ip |-> "10.0.0.1", port |-> 80],
      [name |-> "b", version |-> "1", ip |-> "10.0.0.1", port |-> 80] }

\* The clock of the two-registry specification stops at MaxTwoTime.
MaxTwoTime == 6

\* Names a client asks GetApisByApiName for ("zz" is never announced).
QueryNames == {"a", "b", "zz"}

\* The goroutines that call RegisterApi.
Callers == {"c1", "c2"}

\* Two long names: with version "1" and port 80 the announcement of the first
\* encodes to exactly RegistrationMessageSizeBytes, that of the second to one more.
NameAtLimit == "name-of-1341-bytes"

NameOverLimit == "name-of-1342-bytes"

\* The arguments RegisterApi is called with.
RegisterArgs ==
    { [name |-> "",            version |-> "1", port |-> 80],
      [name |-> "a",           version |-> "",  port |-> 80],
      [name |-> "a",           version |-> "1", port |-> 80],
      [name |-> "a",           version |-> "2", port |-> 81],
      [name |-> NameAtLimit,   version |-> "1", port |-> 80],
      [name |-> NameOverLimit, version |-> "1", port |-> 80] }

----------------------------------------------------------------------------
(* Program constants.                                                      *)

RegistrationMessageSizeBytes == 1400

\* RegistrationUpdateInterval, 30 s, the clock unit
RegistrationUpdateInterval == 1

\* a lifespan of two resend intervals only
RegistrationLifeSpan_TwoIntervals == 2 * RegistrationUpdateInterval

\* RegistrationLifeSpan, 90 s, in clock units of 30 s
RegistrationLifeSpan == 3

----------------------------------------------------------------------------
(* sync.RWMutex: readers counts the read locks held, writer says whether   *)
(* the write lock is held, waiting holds the goroutines blocked in Lock(). *)
(* A pending Lock() keeps later RLock() calls out.                         *)

NewRWMutex == [readers |-> 0, writer |-> FALSE, waiting |-> {}]

CanRLock(m) == ~m.writer /\ m.waiting = {}

RLock(m) == [m EXCEPT !.readers = @ + 1]

RUnlock(m) == [m EXCEPT !.readers = @ - 1]

LockCall(m, who) == [m EXCEPT !.waiting = @ \cup {who}]

CanLock(m, who) == who \in m.waiting /\ ~m.writer /\ m.readers = 0

Lock(m, who) == [m EXCEPT !.waiting = @ \ {who}, !.writer = TRUE]

Unlock(m) == [m EXCEPT !.writer = FALSE]

----------------------------------------------------------------------------
(* time.Time comparisons.                                                  *)

After(t, u) == t > u

Before(t, u) == t < u

\* curReg.timeRegistered.Add(curReg.lifeSpan)
Expiry(r) == r.timeRegistered + r.lifeSpan

----------------------------------------------------------------------------
(* The remote map.                                                         *)

\* this.apiRegs[name]: the nil slice when the key is missing
RegsOf(regs, name) == IF name \in DOMAIN regs THEN regs[name] ELSE <<>>

\* this.apiRegs[name] = slice
MapPut(regs, name, slice) ==
    [n \in DOMAIN regs \cup {name} |-> IF n = name THEN slice ELSE regs[n]]

\* delete(this.apiRegs, name)
MapDelete(regs, name) == [n \in DOMAIN regs \ {name} |-> regs[n]]

\* getRegMatch looking at the first registration only
getRegMatch_FirstOnly(api, apis) ==
    IF apis # <<>>
       /\ apis[1].api.name = api.name
       /\ apis[1].api.version = api.version
       /\ apis[1].api.ip = api.ip
       /\ apis[1].api.port = api.port
    THEN 1 ELSE 0

\* the condition of getRegMatch without the port comparison
getRegMatchFrom_NoPort(api, apis, i) ==
    IF apis[i].api.name = api.name
       /\ apis[i].api.version = api.version
       /\ apis[i].api.ip = api.ip
    THEN i ELSE 0

RECURSIVE getRegMatch(_, _)
\* index of the first registration with api's 4-tuple, 0 for nil
getRegMatchFrom(api, apis, i) ==
    IF apis[i].api.name = api.name
       /\ apis[i].api.version = api.version
       /\ apis[i].api.ip = api.ip
       /\ apis[i].api.port = api.port
    THEN i ELSE 0

getRegMatch(api, apis) ==
    IF apis = <<>> THEN 0
    ELSE IF getRegMatchFrom(api, apis, 1) = 1 THEN 1
    ELSE LET rest == getRegMatch(api, Tail(apis))
         IN  IF rest = 0 THEN 0 ELSE rest + 1

\* updateApis that leaves a matching registration's timestamp alone
updateApis_NoRefresh(regs, api, lifespan, t) ==
    IF api.name \notin DOMAIN regs
    THEN MapPut(regs, api.name,
                << [api |-> api, timeRegistered |-> t, lifeSpan |-> lifespan] >>)
    ELSE IF getRegMatch(api, regs[api.name]) # 0
    THEN regs
    ELSE MapPut(regs, api.name,
                Append(regs[api.name],
                       [api |-> api, timeRegistered |-> t, lifeSpan |-> lifespan]))

RECURSIVE RemoveAt(_, _)
\* a slice without its i-th element
RemoveAt(s, i) ==
    IF i = 1 THEN Tail(s) ELSE << Head(s) >> \o RemoveAt(Tail(s), i - 1)

\* updateApis that moves a refreshed registration to the end of the slice
updateApis_RefreshMovesLast(regs, api, lifespan, t) ==
    IF api.name \notin DOMAIN regs
    THEN MapPut(regs, api.name,
                << [api |-> api, timeRegistered |-> t, lifeSpan |-> lifespan] >>)
    ELSE LET apisForName == regs[api.name]
             matchReg == getRegMatch(api, apisForName)
         IN  IF matchReg # 0
             THEN MapPut(regs, api.name,
                         Append(RemoveAt(apisForName, matchReg),
                                [apisForName[matchReg] EXCEPT !.timeRegistered = t]))
             ELSE MapPut(regs, api.name,
                         Append(apisForName,
                                [api |-> api, timeRegistered |-> t, lifeSpan |-> lifespan]))

\* updateApis that takes over the lifespan of the refreshing announcement
updateApis_RefreshLifeSpan(regs, api, lifespan, t) ==
    IF api.name \notin DOMAIN regs
    THEN MapPut(regs, api.name,
                << [api |-> api, timeRegistered |-> t, lifeSpan |-> lifespan] >>)
    ELSE LET apisForName == regs[api.name]
             matchReg == getRegMatch(api, apisForName)
         IN  IF matchReg # 0
             THEN MapPut(regs, api.name,
                         [apisForName EXCEPT ![matchReg].timeRegistered = t,
                                             ![matchReg].lifeSpan = lifespan])
             ELSE MapPut(regs, api.name,
                         Append(apisForName,
                                [api |-> api, timeRegistered |-> t, lifeSpan |-> lifespan]))

\* the body of updateApis, run under the write lock at time t
updateApis(regs, api, lifespan, t) ==
    IF api.name \notin DOMAIN regs
    THEN MapPut(regs, api.name,
                << [api |-> api, timeRegistered |-> t, lifeSpan |-> lifespan] >>)
    ELSE LET apisForName == regs[api.name]
             matchReg == getRegMatch(api, apisForName)
         IN  IF matchReg # 0
             THEN MapPut(regs, api.name,
                         [apisForName EXCEPT ![matchReg].timeRegistered = t])
             ELSE MapPut(regs, api.name,
                         Append(apisForName,
                                [api |-> api, timeRegistered |-> t, lifeSpan |-> lifespan]))

RECURSIVE ActiveApis(_, _)
\* the loop of GetApisByApiName over regs with now = t
ActiveApis(regs, t) ==
    IF regs = <<>> THEN <<>>
    ELSE (IF After(Expiry(Head(regs)), t) THEN << Head(regs).api >> ELSE <<>>)
         \o ActiveApis(Tail(regs), t)

RECURSIVE NotExpiredApis(_, _)
\* the loop of GetApisByApiName with the test of findExpiredApiRegs negated
NotExpiredApis(regs, t) ==
    IF regs = <<>> THEN <<>>
    ELSE (IF ~Before(Expiry(Head(regs)), t) THEN << Head(regs).api >> ELSE <<>>)
         \o NotExpiredApis(Tail(regs), t)

\* GetApisByApiName keeping a registration at its expiry instant
GetApisByApiName_AtExpiry(regs, name, t) == NotExpiredApis(RegsOf(regs, name), t)

\* the body of GetApisByApiName, run under the read lock at time t
GetApisByApiName(regs, name, t) == ActiveApis(RegsOf(regs, name), t)

RECURSIVE ActiveRegs(_, _)
\* newRegsForName of one cleanup iteration: the registrations still valid at t
ActiveRegs(regs, t) ==
    IF regs = <<>> THEN <<>>
    ELSE (IF After(Expiry(Head(regs)), t) THEN << Head(regs) >> ELSE <<>>)
         \o ActiveRegs(Tail(regs), t)

\* one iteration that drops the whole collection of the expired
\* registration's name
cleanupName_DropName(regs, name, t) == MapDelete(regs, name)

\* one iteration of the loop over expiredApiRegs, for the expired
\* registration's name, run under the write lock at time t
cleanupName(regs, name, t) ==
    LET newRegsForName == ActiveRegs(RegsOf(regs, name), t)
    IN  IF Len(newRegsForName) > 0
        THEN MapPut(regs, name, newRegsForName)
        ELSE MapDelete(regs, name)

RECURSIVE ExpiredNames(_, _)
\* the names of the registrations of one slice that expired before t
ExpiredNames(regs, t) ==
    IF regs = <<>> THEN <<>>
    ELSE (IF Before(Expiry(Head(regs)), t) THEN << Head(regs).api.name >> ELSE <<>>)
         \o ExpiredNames(Tail(regs), t)

RECURSIVE findExpiredApiRegs(_, _, _)
\* the scan of findExpiredApiRegs, visiting the map's names in the given
\* order; the result is kept as the names of the expired registrations,
\* the only field the cleanup loop reads from them
findExpiredApiRegs(regs, order, t) ==
    IF order = <<>> THEN <<>>
    ELSE ExpiredNames(regs[Head(order)], t) \o findExpiredApiRegs(regs, Tail(order), t)

\* the orders in which a range over a map with these keys may visit them
RangeOrders(keys) ==
    { s \in [1..Cardinality(keys) -> keys] : \A i, j \in DOMAIN s : i # j => s[i] # s[j] }

----------------------------------------------------------------------------
(* The owned map and the announcement on the wire.                         *)

\* len(s) in bytes; the two long names stand for strings of that many bytes
StrLen(s) ==
    CASE s = NameAtLimit   -> 1341
      [] s = NameOverLimit -> 1342
      [] OTHER             -> Len(s)

RECURSIVE Digits(_)
\* the decimal digits of a non-negative integer
Digits(n) == IF n < 10 THEN 1 ELSE 1 + Digits(n \div 10)

\* bytes of the JSON record around the four values, newline included:
\* {"name":"","version":"","port":,"lifespan":}
JsonFrameBytes == 45

\* digits of the lifespan of 90 s on the wire, in nanoseconds
LifeSpanDigits == 11

\* dataOut.Len(): the size of the encoded apiRegisterMessageJSON
EncodedLen(name, version, port) ==
    JsonFrameBytes + StrLen(name) + StrLen(version) + Digits(port) + LifeSpanDigits

\* sendApiRegistration without the size test
sendApiRegistration_NoSizeTest(name, version, port, dialOk, writeOk) ==
    IF ~dialOk THEN [err |-> "dial", written |-> FALSE]
    ELSE IF ~writeOk THEN [err |-> "write", written |-> TRUE]
    ELSE [err |-> "nil", written |-> TRUE]

\* sendApiRegistration: the error it returns and whether conn.Write was
\* called; dialOk and writeOk are the outcomes of DialUDP and conn.Write
sendApiRegistration(name, version, port, dialOk, writeOk) ==
    IF ~dialOk THEN [err |-> "dial", written |-> FALSE]
    ELSE IF EncodedLen(name, version, port) > RegistrationMessageSizeBytes
    THEN [err |-> "size", written |-> FALSE]
    ELSE IF ~writeOk THEN [err |-> "write", written |-> TRUE]
    ELSE [err |-> "nil", written |-> TRUE]

\* wire before any conn.Write call
NoWrite ==
    [name |-> "", version |-> "", port |-> 0, lifeSpan |-> 0, by |-> "none", err |-> "nil"]

\* one conn.Write call, as recorded in wire
Written(name, version, port, by, err) ==
    [name |-> name, version |-> version, port |-> port,
     lifeSpan |-> RegistrationLifeSpan, by |-> by, err |-> err]

\* RegisterApi's test of its arguments, without the version
RegisterApiArgs_NameOnly(name, version) ==
    IF name = "" THEN "name was empty" ELSE "nil"

\* RegisterApi's test of its arguments: the error returned, "nil" for none
RegisterApiArgs(name, version) ==
    IF name = "" THEN "name was empty"
    ELSE IF version = "" THEN "version was empty"
    ELSE "nil"

\* the key helper that is never called
computeOwnedRegKey(name, version) == <<name, ":", version>>

\* ownsApi looking the name up with its version
ownsApi_ByNameAndVersion(owned, name, version) ==
    name \in DOMAIN owned /\ owned[name].version = version

\* the body of ownsApi, run under the read lock (version is not looked at)
ownsApi(owned, name, version) == name \in DOMAIN owned

\* RegisterApi recording ownership whatever the send returned
RegisterApiStores_Always(err) == TRUE

\* RegisterApi records ownership only when the send returned no error
RegisterApiStores(err) == err = "nil"

\* this.ownedRegs[name] = &ownedApi{...}
storeOwned(owned, name, version, port) ==
    [n \in DOMAIN owned \cup {name} |->
        IF n = name THEN [name |-> name, version |-> version, port |-> port]
        ELSE owned[n]]

----------------------------------------------------------------------------
(* Initial state: NewRegistry has returned, the goroutines are started.    *)

NoApi == [name |-> "", version |-> "", ip |-> "", port |-> 0]

ListenerIdle == [pc |-> "read", api |-> NoApi, lifeSpan |-> 0, arrived |-> 0]

CleanupIdle == [pc |-> "wait", scanNow |-> 0, expired |-> <<>>]

QueryIdle == [pc |-> "idle", todo |-> {}, parts |-> <<>>]

CallerIdle ==
    [pc |-> "idle", name |-> "", version |-> "", port |-> 0, err |-> "nil",
     sent |-> FALSE, stored |-> FALSE, late |-> FALSE]

ResendIdle == [pc |-> "wait", todo |-> {}]

\* no resend pass yet, nothing on its way, the latest announcement not lost
NetIdle == [sentAt |-> 0, inflight |-> FALSE, lost |-> FALSE]

InitEnv ==
    /\ net = NetIdle
    /\ discardedAt = -1

InitOwnedHalf ==
    /\ ownedRegs = << >>
    /\ ownedRegsRWMutex = NewRWMutex
    /\ reg = [p \in Callers |-> CallerIdle]
    /\ rsd = ResendIdle
    /\ wire = NoWrite
    /\ announced = {}
    /\ succeeded = {}

Init ==
    /\ now = 0
    /\ apiRegs = << >>
    /\ apisRWMutex = NewRWMutex
    /\ lis = ListenerIdle
    /\ cln = CleanupIdle
    /\ qry = QueryIdle
    /\ InitOwnedHalf
    /\ InitEnv

----------------------------------------------------------------------------
(* The clock.                                                              *)

Tick ==
    /\ now < MaxTime
    /\ now' = now + 1
    /\ UNCHANGED <<apiRegs, apisRWMutex, lis, cln, qry, ownedVars, envVars>>

----------------------------------------------------------------------------
(* listenMutlicast: one goroutine, looping over ReadFromUDP.               *)

\* ReadFromUDP returned an error: logged, next iteration
ListenReadError ==
    /\ lis.pc = "read"
    /\ UNCHANGED vars

\* the datagram is not a JSON record: logged, next iteration
ListenDecodeError ==
    /\ lis.pc = "read"
    /\ UNCHANGED vars

\* a datagram announcing one of apis with one of lifespans was read and
\* decoded; updateApis is called and asks for the write lock
ListenReceiveOf(apis, lifespans) ==
    /\ lis.pc = "read"
    /\ \E api \in apis, lifespan \in lifespans :
          lis' = [pc |-> "lock", api |-> api, lifeSpan |-> lifespan, arrived |-> now]
    /\ apisRWMutex' = LockCall(apisRWMutex, "listener")
    /\ UNCHANGED <<now, apiRegs, cln, qry, ownedVars, envVars>>

ListenReceive == ListenReceiveOf(RemoteApis, LifeSpans)

\* updateApis from Lock() granted to Unlock(): nothing else runs on the map
\* while the write lock is held, and time.Now() is read inside
ListenUpdate ==
    /\ lis.pc = "lock"
    /\ CanLock(apisRWMutex, "listener")
    /\ apiRegs' = updateApis(apiRegs, lis.api, lis.lifeSpan, now)
    /\ apisRWMutex' = Unlock(Lock(apisRWMutex, "listener"))
    /\ lis' = ListenerIdle
    /\ UNCHANGED <<now, cln, qry, ownedVars, envVars>>

----------------------------------------------------------------------------
(* cleanupExpiredRegLoop: one goroutine, one cycle per ticker event.       *)

\* the ticker fired; findExpiredApiRegs reads time.Now() before it locks
CleanupTick ==
    /\ cln.pc = "wait"
    /\ cln' = [pc |-> "scan", scanNow |-> now, expired |-> <<>>]
    /\ UNCHANGED <<now, apiRegs, apisRWMutex, lis, qry, ownedVars, envVars>>

\* findExpiredApiRegs from RLock() granted to RUnlock(); with nothing
\* expired the cycle ends, otherwise the loop asks for the write lock
CleanupScan ==
    /\ cln.pc = "scan"
    /\ CanRLock(apisRWMutex)
    /\ \E order \in RangeOrders(DOMAIN apiRegs) :
          LET expiredApiRegs == findExpiredApiRegs(apiRegs, order, cln.scanNow)
          IN  IF Len(expiredApiRegs) > 0
              THEN /\ cln' = [cln EXCEPT !.pc = "lock", !.expired = expiredApiRegs]
                   /\ apisRWMutex' = LockCall(apisRWMutex, "cleanup")
              ELSE /\ cln' = CleanupIdle
                   /\ UNCHANGED apisRWMutex
    /\ UNCHANGED <<now, apiRegs, lis, qry, ownedVars, envVars>>

\* Lock() granted
CleanupLock ==
    /\ cln.pc = "lock"
    /\ CanLock(apisRWMutex, "cleanup")
    /\ apisRWMutex' = Lock(apisRWMutex, "cleanup")
    /\ cln' = [cln EXCEPT !.pc = "pass"]
    /\ UNCHANGED <<now, apiRegs, lis, qry, ownedVars, envVars>>

\* one iteration of the loop over expiredApiRegs
CleanupPass ==
    /\ cln.pc = "pass"
    /\ cln.expired # <<>>
    /\ apiRegs' = cleanupName(apiRegs, Head(cln.expired), now)
    /\ cln' = [cln EXCEPT !.expired = Tail(@)]
    /\ UNCHANGED <<now, apisRWMutex, lis, qry, ownedVars, envVars>>

\* the loop is over: Unlock(), back to the ticker
CleanupUnlock ==
    /\ cln.pc = "pass"
    /\ cln.expired = <<>>
    /\ apisRWMutex' = Unlock(apisRWMutex)
    /\ cln' = CleanupIdle
    /\ UNCHANGED <<now, apiRegs, lis, qry, ownedVars, envVars>>

----------------------------------------------------------------------------
(* A client goroutine.  parts holds what the GetApisByApiName calls of the *)
(* running query returned, one record per call: the name asked for, the    *)
(* time.Now() the call read, and the apis it returned.                     *)

RECURSIVE Flatten(_)
\* allApis: the slices of the parts appended in order
Flatten(parts) ==
    IF parts = <<>> THEN <<>> ELSE Head(parts).apis \o Flatten(Tail(parts))

\* what one GetApisByApiName call returns, with the instant it read
Part(name) == [name |-> name, at |-> now, apis |-> GetApisByApiName(apiRegs, name, now)]

\* GetApisByApiName(name) called by the client: RLock() granted, body run
QueryByName ==
    /\ qry.pc = "idle"
    /\ CanRLock(apisRWMutex)
    /\ \E name \in QueryNames :
          qry' = [pc |-> "byName", todo |-> {}, parts |-> << Part(name) >>]
    /\ apisRWMutex' = RLock(apisRWMutex)
    /\ UNCHANGED <<now, apiRegs, lis, cln, ownedVars, envVars>>

\* RUnlock() and return
QueryByNameReturn ==
    /\ qry.pc = "byName"
    /\ apisRWMutex' = RUnlock(apisRWMutex)
    /\ qry' = QueryIdle
    /\ UNCHANGED <<now, apiRegs, lis, cln, ownedVars, envVars>>

\* GetAvailableApis called: RLock() granted, the range over the map starts
QueryAvailable ==
    /\ qry.pc = "idle"
    /\ CanRLock(apisRWMutex)
    /\ apisRWMutex' = RLock(apisRWMutex)
    /\ qry' = [pc |-> "avail", todo |-> DOMAIN apiRegs, parts |-> <<>>]
    /\ UNCHANGED <<now, apiRegs, lis, cln, ownedVars, envVars>>

\* one iteration of the range: the nested GetApisByApiName(curApiName) from
\* its RLock() granted to its RUnlock(), while the outer read lock is held
QueryAvailableName ==
    /\ qry.pc = "avail"
    /\ CanRLock(apisRWMutex)
    /\ \E curApiName \in qry.todo :
          qry' = [qry EXCEPT !.todo = @ \ {curApiName},
                             !.parts = Append(@, Part(curApiName))]
    /\ apisRWMutex' = RUnlock(RLock(apisRWMutex))
    /\ UNCHANGED <<now, apiRegs, lis, cln, ownedVars, envVars>>

\* the range is over: RUnlock() and return allApis
QueryAvailableReturn ==
    /\ qry.pc = "avail"
    /\ qry.todo = {}
    /\ apisRWMutex' = RUnlock(apisRWMutex)
    /\ qry' = QueryIdle
    /\ UNCHANGED <<now, apiRegs, lis, cln, ownedVars, envVars>>

----------------------------------------------------------------------------
(* RegisterApi, called by the goroutines of Callers.  In a caller's record *)
(* sent says whether this call reached conn.Write, stored whether it wrote *)
(* the owned map, late whether it started after a call for the same name   *)
(* had returned nil.                                                       *)

\* the call, with one of args as its arguments, and the test of them
RegisterCallOf(p, args) ==
    /\ reg[p].pc = "idle"
    /\ \E a \in args :
          LET err == RegisterApiArgs(a.name, a.version)
          IN  reg' = [reg EXCEPT ![p] =
                        [pc |-> IF err = "nil" THEN "owns" ELSE "ret",
                         name |-> a.name, version |-> a.version, port |-> a.port,
                         err |-> err, sent |-> FALSE, stored |-> FALSE,
                         late |-> a.name \in succeeded]]
    /\ UNCHANGED <<remoteVars, envVars, ownedRegs, ownedRegsRWMutex, rsd, wire, announced, succeeded>>

RegisterCall(p) == RegisterCallOf(p, RegisterArgs)

\* ownsApi from RLock() granted to RUnlock(); an owned name returns nil
RegisterOwns(p) ==
    /\ reg[p].pc = "owns"
    /\ CanRLock(ownedRegsRWMutex)
    /\ reg' = [reg EXCEPT ![p].pc =
                  IF ownsApi(ownedRegs, reg[p].name, reg[p].version) THEN "ret" ELSE "send"]
    /\ UNCHANGED <<remoteVars, envVars, ownedRegs, ownedRegsRWMutex, rsd, wire, announced, succeeded>>

\* sendApiRegistration; on success the call asks for the write lock
RegisterSend(p) ==
    /\ reg[p].pc = "send"
    /\ \E dialOk, writeOk \in BOOLEAN :
          LET r == sendApiRegistration(reg[p].name, reg[p].version, reg[p].port,
                                       dialOk, writeOk)
              stores == RegisterApiStores(r.err)
          IN  /\ wire' = IF r.written
                         THEN Written(reg[p].name, reg[p].version, reg[p].port,
                                      "register", r.err)
                         ELSE wire
              /\ announced' = IF r.err = "nil" THEN announced \cup {reg[p].name}
                              ELSE announced
              /\ reg' = [reg EXCEPT ![p].pc = IF stores THEN "lock" ELSE "ret",
                                    ![p].err = r.err,
                                    ![p].sent = r.written]
              /\ ownedRegsRWMutex' = IF stores THEN LockCall(ownedRegsRWMutex, p)
                                     ELSE ownedRegsRWMutex
    /\ UNCHANGED <<remoteVars, envVars, ownedRegs, rsd, succeeded>>

\* RegisterApi's store that also enters the api into the remote map
RegisterStore_AlsoRemote(p) ==
    /\ reg[p].pc = "lock"
    /\ CanLock(ownedRegsRWMutex, p)
    /\ ownedRegs' = storeOwned(ownedRegs, reg[p].name, reg[p].version, reg[p].port)
    /\ ownedRegsRWMutex' = Unlock(Lock(ownedRegsRWMutex, p))
    /\ reg' = [reg EXCEPT ![p].pc = "ret", ![p].stored = TRUE]
    /\ apiRegs' = updateApis(apiRegs,
                             [name |-> reg[p].name, version |-> reg[p].version,
                              ip |-> "127.0.0.1", port |-> reg[p].port],
                             RegistrationLifeSpan, now)
    /\ UNCHANGED <<now, apisRWMutex, lis, cln, qry, envVars, rsd, wire, announced, succeeded>>

\* the write of the owned map from Lock() granted to Unlock()
RegisterStore(p) ==
    /\ reg[p].pc = "lock"
    /\ CanLock(ownedRegsRWMutex, p)
    /\ ownedRegs' = storeOwned(ownedRegs, reg[p].name, reg[p].version, reg[p].port)
    /\ ownedRegsRWMutex' = Unlock(Lock(ownedRegsRWMutex, p))
    /\ reg' = [reg EXCEPT ![p].pc = "ret", ![p].stored = TRUE]
    /\ UNCHANGED <<remoteVars, envVars, rsd, wire, announced, succeeded>>

\* the call returns reg[p].err
RegisterReturn(p) ==
    /\ reg[p].pc = "ret"
    /\ succeeded' = IF reg[p].err = "nil" THEN succeeded \cup {reg[p].name} ELSE succeeded
    /\ reg' = [reg EXCEPT ![p] = CallerIdle]
    /\ UNCHANGED <<remoteVars, envVars, ownedRegs, ownedRegsRWMutex, rsd, wire, announced>>

----------------------------------------------------------------------------
(* resendOwnedRegistrationsLoop: one processRegResends per ticker event.   *)

\* the ticker fired and RLock() was granted: the range over ownedRegs starts
ResendTick ==
    /\ rsd.pc = "wait"
    /\ CanRLock(ownedRegsRWMutex)
    /\ ownedRegsRWMutex' = RLock(ownedRegsRWMutex)
    /\ rsd' = [pc |-> "send", todo |-> DOMAIN ownedRegs]
    /\ UNCHANGED <<remoteVars, envVars, ownedRegs, reg, wire, announced, succeeded>>

\* one iteration that leaves the loop when the send returned an error
ResendSend_StopOnError ==
    /\ rsd.pc = "send"
    /\ \E n \in rsd.todo, dialOk, writeOk \in BOOLEAN :
          LET curOwnedApi == ownedRegs[n]
              r == sendApiRegistration(curOwnedApi.name, curOwnedApi.version,
                                       curOwnedApi.port, dialOk, writeOk)
          IN  /\ wire' = IF r.written
                         THEN Written(curOwnedApi.name, curOwnedApi.version,
                                      curOwnedApi.port, "resend", r.err)
                         ELSE wire
              /\ rsd' = [rsd EXCEPT !.todo = IF r.err = "nil" THEN @ \ {n} ELSE {}]
    /\ UNCHANGED <<remoteVars, envVars, ownedRegs, ownedRegsRWMutex, reg, announced, succeeded>>

\* one iteration: sendApiRegistration for one owned api, its error dropped
ResendSend ==
    /\ rsd.pc = "send"
    /\ \E n \in rsd.todo, dialOk, writeOk \in BOOLEAN :
          LET curOwnedApi == ownedRegs[n]
              r == sendApiRegistration(curOwnedApi.name, curOwnedApi.version,
                                       curOwnedApi.port, dialOk, writeOk)
          IN  /\ wire' = IF r.written
                         THEN Written(curOwnedApi.name, curOwnedApi.version,
                                      curOwnedApi.port, "resend", r.err)
                         ELSE wire
              /\ rsd' = [rsd EXCEPT !.todo = @ \ {n}]
    /\ UNCHANGED <<remoteVars, envVars, ownedRegs, ownedRegsRWMutex, reg, announced, succeeded>>

\* the range is over: RUnlock(), back to the ticker
ResendDone ==
    /\ rsd.pc = "send"
    /\ rsd.todo = {}
    /\ ownedRegsRWMutex' = RUnlock(ownedRegsRWMutex)
    /\ rsd' = ResendIdle
    /\ UNCHANGED <<remoteVars, envVars, ownedRegs, reg, wire, announced, succeeded>>

----------------------------------------------------------------------------
(* The remote half of the registry.                                        *)

Next ==
    \/ Tick
    \/ ListenReadError
    \/ ListenDecodeError
    \/ ListenReceive
    \/ ListenUpdate
    \/ CleanupTick
    \/ CleanupScan
    \/ CleanupLock
    \/ CleanupPass
    \/ CleanupUnlock
    \/ QueryByName
    \/ QueryByNameReturn
    \/ QueryAvailable
    \/ QueryAvailableName
    \/ QueryAvailableReturn

Spec == Init /\ [][Next]_vars

----------------------------------------------------------------------------
(* The owned half of the registry, started with the remote map empty or    *)
(* holding one registration the listener has stored.                       *)

SeenRemote ==
    [a |-> << [api |-> [name |-> "a", version |-> "1", ip |-> "10.0.0.1", port |-> 80],
               timeRegistered |-> 0, lifeSpan |-> 1] >>]

InitOwned ==
    /\ now = 0
    /\ apiRegs \in {<< >>, SeenRemote}
    /\ apisRWMutex = NewRWMutex
    /\ lis = ListenerIdle
    /\ cln = CleanupIdle
    /\ qry = QueryIdle
    /\ InitOwnedHalf
    /\ InitEnv

NextOwned ==
    \/ \E p \in Callers : RegisterCall(p)
    \/ \E p \in Callers : RegisterOwns(p)
    \/ \E p \in Callers : RegisterSend(p)
    \/ \E p \in Callers : RegisterStore(p)
    \/ \E p \in Callers : RegisterReturn(p)
    \/ ResendTick
    \/ ResendSend
    \/ ResendDone

SpecOwned == InitOwned /\ [][NextOwned]_vars

----------------------------------------------------------------------------
(* Properties of the remote half.                                          *)

Range(seq) == { seq[i] : i \in DOMAIN seq }

\* the registrations of a slice that are active at time t, by index
ActiveAt(regs, t) == { i \in DOMAIN regs : regs[i].timeRegistered + regs[i].lifeSpan > t }

\* a part holds exactly the apis of its name's registrations active at the
\* instant the call read
PartExact(part) ==
    LET regs == RegsOf(apiRegs, part.name)
        idx == ActiveAt(regs, part.at)
    IN  /\ Len(part.apis) = Cardinality(idx)
        /\ \A i \in idx : regs[i].api \in Range(part.apis)
        /\ \A a \in Range(part.apis) : \E i \in idx : regs[i].api = a
        /\ part.name \notin DOMAIN apiRegs => part.apis = <<>>

\* C1: while a query holds its read lock, what each GetApisByApiName call
\* returned is exactly the apis of the registrations stored under its name
\* that were active at the instant it read (none expired, none missing,
\* nothing for an unknown name), and at the end of GetAvailableApis the
\* result is the union of one such call per name of the remote map.
C1_QueriesReturnExactlyActive ==
    /\ \A k \in DOMAIN qry.parts : PartExact(qry.parts[k])
    /\ (qry.pc = "avail" /\ qry.todo = {}) =>
          /\ { qry.parts[k].name : k \in DOMAIN qry.parts } = DOMAIN apiRegs
          /\ Len(qry.parts) = Cardinality(DOMAIN apiRegs)
          /\ Range(Flatten(qry.parts)) =
                UNION { Range(GetApisByApiName(apiRegs, qry.parts[k].name, qry.parts[k].at)) :
                          k \in DOMAIN qry.parts }
          /\ \A k \in DOMAIN qry.parts : qry.parts[k].at <= now

\* a by-name query left out a registration that expired and was not swept,
\* and returned another one
C1_Witness ==
    /\ qry.pc = "byName"
    /\ \E i \in DOMAIN RegsOf(apiRegs, qry.parts[1].name) :
          Expiry(apiRegs[qry.parts[1].name][i]) <= qry.parts[1].at
    /\ Len(qry.parts[1].apis) >= 1

\* some call on the remote map has started and not finished
RemoteCallInProgress ==
    \/ lis.pc = "lock"
    \/ cln.pc \in {"scan", "lock", "pass"}
    \/ qry.pc # "idle"

\* the steps that carry on a call already started
RemoteCallStep ==
    \/ ListenUpdate
    \/ CleanupScan
    \/ CleanupLock
    \/ CleanupPass
    \/ CleanupUnlock
    \/ QueryByNameReturn
    \/ QueryAvailableName
    \/ QueryAvailableReturn

\* C2: no reachable state is a deadlock on the remote-map lock: whenever a
\* call on the remote map is in progress, some call in progress can take
\* its next step.
C2_NoDeadlock == RemoteCallInProgress => ENABLED RemoteCallStep

\* C3: no two registrations of one name's collection have the same
\* (name, version, host IP, host port).
C3_NoDuplicateTuple ==
    \A n \in DOMAIN apiRegs :
        \A i, j \in DOMAIN apiRegs[n] : i # j => apiRegs[n][i].api # apiRegs[n][j].api

\* two registrations under one name, the older one refreshed after the
\* newer one was added
C3_Witness ==
    \E n \in DOMAIN apiRegs :
        /\ Len(apiRegs[n]) = 2
        /\ apiRegs[n][1].timeRegistered > apiRegs[n][2].timeRegistered

\* the step in which the listener's updateApis runs
IsListenUpdate == lis.pc = "lock" /\ lis'.pc = "read"

\* the registrations of a map, as a set
AllRegs(regs) == UNION { Range(regs[n]) : n \in DOMAIN regs }

\* C4 as stated: after updateApis, the registration of the announced
\* 4-tuple carries the announcement's arrival time.
C4_TimestampIsArrival ==
    [][IsListenUpdate =>
          \A r \in AllRegs(apiRegs') : r.api = lis.api => r.timeRegistered = lis.arrived]_vars

\* C4 amended: updateApis leaves exactly one registration of the announced
\* 4-tuple, stamped with the time read under the write lock (at or after
\* the arrival), and no other step changes a timestamp or adds a
\* registration; so a registration's timestamp is the time at which the
\* latest announcement of its 4-tuple was processed.
C4_TimestampIsLatestUpdate ==
    [][IF IsListenUpdate
       THEN /\ Cardinality({ i \in DOMAIN apiRegs'[lis.api.name] :
                               apiRegs'[lis.api.name][i].api = lis.api }) = 1
            /\ \A r \in AllRegs(apiRegs') :
                  IF r.api = lis.api
                  THEN r.timeRegistered = now /\ r.timeRegistered >= lis.arrived
                  ELSE r \in AllRegs(apiRegs)
       ELSE AllRegs(apiRegs') \subseteq AllRegs(apiRegs)]_vars

\* a registration refreshed at the present instant, after a registration
\* that was added later than it
C4_Witness ==
    /\ lis.pc = "read"
    /\ now >= 2
    /\ \E n \in DOMAIN apiRegs :
          /\ Len(apiRegs[n]) = 2
          /\ apiRegs[n][1].timeRegistered = now
          /\ apiRegs[n][2].timeRegistered < now

----------------------------------------------------------------------------
(* The remote half under fair scheduling, with one peer announcing one api. *)
(* Time passes and the tickers fire; a goroutine that can take its next     *)
(* step takes it; a goroutine blocked in RLock() gets the lock if it is     *)
(* free again and again (a reader blocked by a writer is let in when that   *)
(* writer unlocks).  Nothing forces datagrams to arrive or clients to call. *)

FairApis == { [name |-> "a", version |-> "1", ip |-> "10.0.0.1", port |-> 80] }

FairLifeSpans == {1}

ListenReceiveFair == ListenReceiveOf(FairApis, FairLifeSpans)

NextFair ==
    \/ Tick
    \/ ListenReadError
    \/ ListenDecodeError
    \/ ListenReceiveFair
    \/ ListenUpdate
    \/ CleanupTick
    \/ CleanupScan
    \/ CleanupLock
    \/ CleanupPass
    \/ CleanupUnlock
    \/ QueryByName
    \/ QueryByNameReturn
    \/ QueryAvailable
    \/ QueryAvailableName
    \/ QueryAvailableReturn

Fairness ==
    /\ WF_vars(Tick)
    /\ WF_vars(ListenUpdate)
    /\ WF_vars(CleanupTick)
    /\ SF_vars(CleanupScan)
    /\ WF_vars(CleanupLock)
    /\ WF_vars(CleanupPass)
    /\ WF_vars(CleanupUnlock)
    /\ WF_vars(QueryByNameReturn)
    /\ SF_vars(QueryAvailableName)
    /\ WF_vars(QueryAvailableReturn)

FairSpec == Init /\ [][NextFair]_vars /\ Fairness

\* the remote map holds a registration of api whose expiry instant has passed
Expired(api) ==
    \E r \in AllRegs(apiRegs) : r.api = api /\ Before(Expiry(r), now)

\* C10: a registration whose expiry instant has passed is eventually gone
\* from the remote map (removed by a cleanup cycle) unless it is refreshed.
C10_ExpiredEventuallyRemoved ==
    \A api \in FairApis : Expired(api) ~> ~Expired(api)

----------------------------------------------------------------------------
(* Properties of the owned half.                                           *)

\* C5: once the owned map holds an entry for a name, no step removes the
\* entry or changes its version or port.
C5_OwnedEntryNeverChanges ==
    [][\A n \in DOMAIN ownedRegs :
          n \in DOMAIN ownedRegs' /\ ownedRegs'[n] = ownedRegs[n]]_vars

\* C6 as stated: a RegisterApi call made after a call for the same name
\* returned nil makes no send, leaves the owned map alone and returns nil,
\* whatever its version and port.
C6_LaterCallSucceeds ==
    \A p \in Callers :
        reg[p].late =>
            /\ ~reg[p].sent
            /\ ~reg[p].stored
            /\ reg[p].pc = "ret" => reg[p].err = "nil"

\* C6 amended: a RegisterApi call made after a call for the same name
\* returned nil never reaches the send nor the write of the owned map, and
\* returns nil provided its version is not empty (any other version, any
\* port); with an empty version it returns the argument error.
C6_LaterCallIsNoOp ==
    \A p \in Callers :
        reg[p].late =>
            /\ reg[p].pc \notin {"send", "lock"}
            /\ ~reg[p].sent
            /\ ~reg[p].stored
            /\ reg[p].pc = "ret" =>
                  reg[p].err = (IF reg[p].version = "" THEN "version was empty" ELSE "nil")

\* a later call with another version than the owned one has returned nil
C6_Witness ==
    \E p \in Callers :
        /\ reg[p].late
        /\ reg[p].pc = "ret"
        /\ reg[p].err = "nil"
        /\ reg[p].name \in DOMAIN ownedRegs
        /\ ownedRegs[reg[p].name].version # reg[p].version

\* the errors sendApiRegistration returns
SendErrors == {"dial", "size", "write"}

\* C7: a call whose send failed returns that error without writing the
\* owned map, and a call asks for the write lock only after a send that
\* succeeded; a call with valid arguments that returns while its name is
\* not owned did go through the send (it returns a send error); every owned
\* name was announced by a successful send of RegisterApi, and the resend
\* loop sends owned names only.
C7_FailedSendNotOwned ==
    /\ \A p \in Callers :
          /\ reg[p].err \in SendErrors => reg[p].pc = "ret" /\ ~reg[p].stored
          /\ reg[p].pc = "lock" => reg[p].err = "nil" /\ reg[p].sent
          /\ (/\ reg[p].pc = "ret"
              /\ RegisterApiArgs(reg[p].name, reg[p].version) = "nil"
              /\ reg[p].name \notin DOMAIN ownedRegs) => reg[p].err \in SendErrors
    /\ DOMAIN ownedRegs \subseteq announced
    /\ rsd.todo \subseteq DOMAIN ownedRegs
    /\ wire.by = "resend" => wire.name \in announced

\* a call returns a failed write for a name nobody owns, while the resend
\* loop is in a pass
C7_Witness ==
    /\ \E p \in Callers :
          /\ reg[p].pc = "ret"
          /\ reg[p].err = "write"
          /\ reg[p].name \notin DOMAIN ownedRegs
          /\ reg[p].name \notin announced
    /\ rsd.pc = "send"
    /\ ownedRegs # << >>

\* the arguments of caller p's call are refused
BadArgs(r) == r.name = "" \/ r.version = ""

\* C8: a RegisterApi call with an empty name or an empty version goes
\* straight to returning an error: the call step and the return step leave
\* the owned map, the remote map and the wire unchanged, and the call makes
\* no send and no write.
C8_EmptyArgumentRefused ==
    [][\A p \in Callers :
          /\ (reg[p].pc = "idle" /\ reg'[p].pc # "idle" /\ BadArgs(reg'[p])) =>
                /\ reg'[p].pc = "ret"
                /\ reg'[p].err # "nil"
                /\ ~reg'[p].sent /\ ~reg'[p].stored
                /\ UNCHANGED <<ownedRegs, apiRegs, wire, announced>>
          /\ (reg[p].pc # "idle" /\ BadArgs(reg[p]) /\ reg'[p] # reg[p]) =>
                /\ reg[p].pc = "ret"
                /\ reg'[p] = CallerIdle
                /\ UNCHANGED <<ownedRegs, apiRegs, wire, announced, succeeded>>]_vars

\* a call with an empty version is returning its error while both maps
\* hold entries
C8_Witness ==
    /\ \E p \in Callers :
          /\ reg[p].pc = "ret"
          /\ reg[p].version = ""
          /\ reg[p].err = "version was empty"
    /\ apiRegs # << >>
    /\ ownedRegs # << >>

\* the announcement of these arguments is larger than a datagram may be
TooLarge(name, version, port) ==
    EncodedLen(name, version, port) > RegistrationMessageSizeBytes

\* C9: no announcement larger than RegistrationMessageSizeBytes is handed
\* to conn.Write, by RegisterApi or by the resend loop; a RegisterApi call
\* for such an announcement returns an error and never writes the owned
\* map, so no owned entry is too large either.
C9_OversizeNeverWritten ==
    /\ wire.by # "none" => ~TooLarge(wire.name, wire.version, wire.port)
    /\ \A n \in DOMAIN ownedRegs :
          ~TooLarge(ownedRegs[n].name, ownedRegs[n].version, ownedRegs[n].port)
    /\ \A p \in Callers :
          (reg[p].pc \notin {"idle", "owns", "send"}
             /\ ~BadArgs(reg[p])
             /\ TooLarge(reg[p].name, reg[p].version, reg[p].port)) =>
                /\ reg[p].pc = "ret"
                /\ reg[p].err \in {"dial", "size"}
                /\ ~reg[p].sent
                /\ ~reg[p].stored

\* a call for a name one byte too long returns the size error, after an
\* announcement of exactly the maximum size was written
C9_Witness ==
    /\ \E p \in Callers :
          /\ reg[p].pc = "ret"
          /\ reg[p].name = NameOverLimit
          /\ reg[p].err = "size"
    /\ wire.name = NameAtLimit
    /\ wire.err = "nil"
    /\ EncodedLen(wire.name, wire.version, wire.port) = RegistrationMessageSizeBytes

----------------------------------------------------------------------------
(* Two registries.  The owned half (ownedRegs, rsd, wire) is the sender's, *)
(* the remote half (apiRegs, lis, cln, qry) the receiver's.  The sender    *)
(* owns one api; its resend ticker fires every RegistrationUpdateInterval; *)
(* the network has no delay (the clock waits until an announcement on its  *)
(* way has been upserted) and never loses two announcements in a row.  The *)
(* receiver's cleanup cycles and queries come at any time, and so do the   *)
(* announcements of another host for the same name, which may stop.        *)

\* the sender's address as ReadFromUDP reports it
PeerIP == "10.0.0.2"

PeerOwned == [a |-> [name |-> "a", version |-> "1", port |-> 80]]

\* the api the receiver builds from the sender's announcement
PeerApi == [name |-> "a", version |-> "1", ip |-> PeerIP, port |-> 80]

\* the sender's RegisterApi has returned nil; its first announcement may
\* have been lost
InitTwo ==
    /\ now = 0
    /\ apiRegs = << >>
    /\ apisRWMutex = NewRWMutex
    /\ lis = ListenerIdle
    /\ cln = CleanupIdle
    /\ qry = QueryIdle
    /\ ownedRegs = PeerOwned
    /\ ownedRegsRWMutex = NewRWMutex
    /\ reg = [p \in Callers |-> CallerIdle]
    /\ rsd = ResendIdle
    /\ wire = Written("a", "1", 80, "register", "nil")
    /\ announced = {"a"}
    /\ succeeded = {"a"}
    /\ net \in { [NetIdle EXCEPT !.lost = l] : l \in BOOLEAN }
    /\ discardedAt = -1

\* the sender's resend ticker fires: processRegResends sends the owned api;
\* the announcement is lost when the send fails or the network drops it
TwoResend ==
    /\ net.sentAt + RegistrationUpdateInterval <= now
    /\ ~net.inflight
    /\ \E n \in DOMAIN ownedRegs, dialOk, writeOk, dropped \in BOOLEAN :
          LET curOwnedApi == ownedRegs[n]
              r == sendApiRegistration(curOwnedApi.name, curOwnedApi.version,
                                       curOwnedApi.port, dialOk, writeOk)
              delivered == r.written /\ r.err = "nil" /\ ~dropped
          IN  /\ delivered \/ ~net.lost
              /\ wire' = IF r.written
                         THEN Written(curOwnedApi.name, curOwnedApi.version,
                                      curOwnedApi.port, "resend", r.err)
                         ELSE wire
              /\ net' = [sentAt |-> now, inflight |-> delivered, lost |-> ~delivered]
    /\ UNCHANGED <<remoteVars, ownedRegs, ownedRegsRWMutex, reg, rsd, announced,
                   succeeded, discardedAt>>

\* the receiver's listener reads and decodes the announcement; updateApis is
\* called and asks for the write lock
TwoReceive ==
    /\ net.inflight
    /\ lis.pc = "read"
    /\ lis' = [pc |-> "lock",
               api |-> [name |-> wire.name, version |-> wire.version,
                        ip |-> PeerIP, port |-> wire.port],
               lifeSpan |-> wire.lifeSpan, arrived |-> now]
    /\ apisRWMutex' = LockCall(apisRWMutex, "listener")
    /\ net' = [net EXCEPT !.inflight = FALSE]
    /\ UNCHANGED <<now, apiRegs, cln, qry, ownedVars, discardedAt>>

\* time passes once the resend due at this instant is done and upserted
TwoTick ==
    /\ now < MaxTwoTime
    /\ net.sentAt + RegistrationUpdateInterval > now
    /\ ~net.inflight
    /\ lis.pc = "read"
    /\ now' = now + 1
    /\ UNCHANGED <<apiRegs, apisRWMutex, lis, cln, qry, ownedVars, envVars>>

\* an announcement of the other host is read and decoded
TwoReceiveOther == ListenReceiveOf(FairApis, FairLifeSpans)

NextTwo ==
    \/ TwoTick
    \/ TwoResend
    \/ TwoReceive
    \/ TwoReceiveOther
    \/ ListenUpdate
    \/ CleanupTick
    \/ CleanupScan
    \/ CleanupLock
    \/ CleanupPass
    \/ CleanupUnlock
    \/ QueryByName
    \/ QueryByNameReturn

SpecTwo == InitTwo /\ [][NextTwo]_vars

\* the receiver's map holds a registration of the sender's api
Observed(regs) == \E r \in AllRegs(regs) : r.api = PeerApi

----------------------------------------------------------------------------
(* One name announced with several versions, ports and sender addresses.   *)

\* The clock of this specification stops at MaxTupleTime.
MaxTupleTime == 2

\* Announcements of the name "a": a base tuple and three that differ from
\* it in the version only, in the port only, in the sender IP only.
TupleApis ==
    { [name |-> "a", version |-> "1", ip |-> "10.0.0.1", port |-> 80],
      [name |-> "a", version |-> "2", ip |-> "10.0.0.1", port |-> 80],
      [name |-> "a", version |-> "1", ip |-> "10.0.0.1", port |-> 81],
      [name |-> "a", version |-> "1", ip |-> "10.0.0.2", port |-> 80] }

TupleLifeSpans == {1}

TupleTick ==
    /\ now < MaxTupleTime
    /\ now' = now + 1
    /\ UNCHANGED <<apiRegs, apisRWMutex, lis, cln, qry, ownedVars, envVars>>

TupleReceive == ListenReceiveOf(TupleApis, TupleLifeSpans)

NextTuples ==
    \/ TupleTick
    \/ TupleReceive
    \/ ListenUpdate
    \/ QueryByName
    \/ QueryByNameReturn

SpecTuples == Init /\ [][NextTuples]_vars

\* no registration of the slice has this 4-tuple
NewTuple(api, regs) == \A i \in DOMAIN regs : regs[i].api # api

\* C12: an announcement whose (name, version, sender IP, port) differs from
\* every registration already under its name, be it in the version, the
\* port or the sender IP only, adds one registration to that name's
\* collection and leaves the others in place; and a GetApisByApiName(name)
\* result holds the api of every registration of the name that is active
\* at the instant the call read, so two such registrations are both
\* returned for as long as both are active.
C12_DistinctTuplesDistinctEntries ==
    [][/\ (IsListenUpdate /\ lis.api.name \in DOMAIN apiRegs
                          /\ NewTuple(lis.api, apiRegs[lis.api.name])) =>
             LET old == apiRegs[lis.api.name]
                 new == apiRegs'[lis.api.name]
             IN  /\ Len(new) = Len(old) + 1
                 /\ SubSeq(new, 1, Len(old)) = old
                 /\ new[Len(new)].api = lis.api
       /\ qry'.pc = "byName" =>
             LET p == qry'.parts[1]
                 regs == RegsOf(apiRegs', p.name)
             IN  \A i \in DOMAIN regs :
                     After(Expiry(regs[i]), p.at) => regs[i].api \in Range(p.apis)]_vars

\* the four tuples are registered under "a", all active, and a
\* GetApisByApiName("a") call in progress returns the four of them
C12_Witness ==
    /\ "a" \in DOMAIN apiRegs
    /\ { apiRegs["a"][i].api : i \in DOMAIN apiRegs["a"] } = TupleApis
    /\ qry.pc = "byName"
    /\ qry.parts[1].name = "a"
    /\ Len(qry.parts[1].apis) = 4
    /\ Range(qry.parts[1].apis) = TupleApis

----------------------------------------------------------------------------
(* The whole registry: one goroutine calling RegisterApi, the resend loop, *)
(* the listener, the cleanup loop and a client.  The datagrams the         *)
(* listener reads are announcements of another host: what this process     *)
(* sends is not delivered back to its own socket.                          *)

FrameCaller == "c1"

\* the arguments of its RegisterApi calls
FrameArgs == { [name |-> "a", version |-> "1", port |-> 80] }

FrameRegisterCall == RegisterCallOf(FrameCaller, FrameArgs)

NextFrame ==
    \/ Tick
    \/ ListenReceiveFair
    \/ ListenUpdate
    \/ CleanupTick
    \/ CleanupScan
    \/ CleanupLock
    \/ CleanupPass
    \/ CleanupUnlock
    \/ QueryByName
    \/ QueryByNameReturn
    \/ QueryAvailable
    \/ QueryAvailableName
    \/ QueryAvailableReturn
    \/ FrameRegisterCall
    \/ RegisterOwns(FrameCaller)
    \/ RegisterSend(FrameCaller)
    \/ RegisterStore(FrameCaller)
    \/ RegisterReturn(FrameCaller)
    \/ ResendTick
    \/ ResendSend
    \/ ResendDone

SpecFrame == Init /\ [][NextFrame]_vars

\* the step in which the cleanup loop filters one name's collection
IsCleanupPass == cln.pc = "pass" /\ cln'.pc = "pass"

\* C13: the remote map changes only in a step of the listener's updateApis,
\* which removes no registration, or in a pass of the cleanup loop, which
\* only removes registrations; the steps of RegisterApi, of the resend loop,
\* of GetAvailableApis and of GetApisByApiName leave it as it is.  So a
\* GetAvailableApis call that returns while the remote map is empty,
\* whatever RegisterApi has stored and sent, returns an empty collection.
C13_OnlyListenerAndCleanupWrite ==
    [][/\ apiRegs' # apiRegs => IsListenUpdate \/ IsCleanupPass
       /\ IsListenUpdate =>
             \A r \in AllRegs(apiRegs) : \E r2 \in AllRegs(apiRegs') : r2.api = r.api
       /\ IsCleanupPass => AllRegs(apiRegs') \subseteq AllRegs(apiRegs)
       /\ (qry.pc = "avail" /\ qry'.pc = "idle" /\ apiRegs = << >>) =>
             Flatten(qry.parts) = << >>]_vars

\* RegisterApi("a", ...) has returned nil and "a" is owned and announced,
\* nothing was received, and a GetAvailableApis call is about to return
\* the empty collection
C13_Witness ==
    /\ "a" \in succeeded
    /\ "a" \in DOMAIN ownedRegs
    /\ wire.name = "a"
    /\ wire.err = "nil"
    /\ apiRegs = << >>
    /\ qry.pc = "avail"
    /\ qry.todo = {}
    /\ Flatten(qry.parts) = << >>

----------------------------------------------------------------------------
(* The listener, datagram by datagram.  A datagram is the payload read by  *)
(* ReadFromUDP with the address it came from; its payload either is a JSON *)
(* record, of which the fields present are decoded and the others keep     *)
(* their zero values, or it is not.                                        *)

\* The clock of this specification stops at MaxListenTime.
MaxListenTime == 2

\* a payload that is a JSON record with these field values
Record(name, version, port, lifespan) ==
    [json |-> TRUE, name |-> name, version |-> version, port |-> port, lifespan |-> lifespan]

\* a payload that is not a JSON record
Garbage == [json |-> FALSE, name |-> "", version |-> "", port |-> 0, lifespan |-> 0]

\* The datagrams that arrive: a peer's announcement with one lifespan or
\* another, the record {}, records without a name or with an empty version,
\* and bytes that are not JSON.
Datagrams ==
    { [ip |-> "10.0.0.1", payload |-> Record("a", "1", 80, 1)],
      [ip |-> "10.0.0.1", payload |-> Record("a", "1", 80, 2)],
      [ip |-> "10.0.0.1", payload |-> Record("", "", 0, 0)],
      [ip |-> "10.0.0.1", payload |-> Record("", "1", 80, 1)],
      [ip |-> "10.0.0.1", payload |-> Record("a", "", 80, 1)],
      [ip |-> "10.0.0.1", payload |-> Garbage] }

\* json.NewDecoder(...).Decode(message): the error and the message filled in
Decode(payload) ==
    IF ~payload.json
    THEN [err |-> "decode",
          message |-> [ApiName |-> "", ApiVersion |-> "", ApiPort |-> 0, LifeSpan |-> 0]]
    ELSE [err |-> "nil",
          message |-> [ApiName |-> payload.name, ApiVersion |-> payload.version,
                       ApiPort |-> payload.port, LifeSpan |-> payload.lifespan]]

\* &apiImpl{name, version, remoteIP: rAddr.IP, remotePort: message.ApiPort}
apiImpl(message, ip) ==
    [name |-> message.ApiName, version |-> message.ApiVersion, ip |-> ip,
     port |-> message.ApiPort]

\* one iteration of the loop that calls updateApis whatever Decode returned
ListenDatagram_UpdateOnDecodeError ==
    /\ lis.pc = "read"
    /\ \E d \in Datagrams :
          LET r == Decode(d.payload)
          IN  /\ discardedAt' = IF r.err # "nil" THEN now ELSE discardedAt
              /\ lis' = [pc |-> "lock", api |-> apiImpl(r.message, d.ip),
                         lifeSpan |-> r.message.LifeSpan, arrived |-> now]
              /\ apisRWMutex' = LockCall(apisRWMutex, "listener")
              /\ UNCHANGED net
    /\ UNCHANGED <<now, apiRegs, cln, qry, ownedVars>>

\* one iteration of the loop over ReadFromUDP, up to the call of updateApis:
\* a datagram that does not decode is logged and dropped
ListenDatagram ==
    /\ lis.pc = "read"
    /\ \E d \in Datagrams :
          LET r == Decode(d.payload)
          IN  IF r.err # "nil"
              THEN /\ discardedAt' = now
                   /\ UNCHANGED <<lis, apisRWMutex, net>>
              ELSE /\ lis' = [pc |-> "lock", api |-> apiImpl(r.message, d.ip),
                              lifeSpan |-> r.message.LifeSpan, arrived |-> now]
                   /\ apisRWMutex' = LockCall(apisRWMutex, "listener")
                   /\ UNCHANGED envVars
    /\ UNCHANGED <<now, apiRegs, cln, qry, ownedVars>>

ListenTick ==
    /\ now < MaxListenTime
    /\ now' = now + 1
    /\ UNCHANGED <<apiRegs, apisRWMutex, lis, cln, qry, ownedVars, envVars>>

NextListen ==
    \/ ListenTick
    \/ ListenReadError
    \/ ListenDatagram
    \/ ListenUpdate

SpecListen == Init /\ [][NextListen]_vars

\* C14: the step in which the listener drops a datagram that does not
\* decode changes neither the remote map nor the owned map and leaves the
\* listener at its next ReadFromUDP; and whenever updateApis runs for a
\* decoded announcement, before or after such a drop, the announced api is
\* registered in the remote map with the current time.
C14_DecodeFailureDrops ==
    [][/\ discardedAt' # discardedAt =>
             /\ apiRegs' = apiRegs
             /\ ownedRegs' = ownedRegs
             /\ lis' = lis
             /\ lis'.pc = "read"
       /\ IsListenUpdate =>
             \E r \in AllRegs(apiRegs') : r.api = lis.api /\ r.timeRegistered = now]_vars

\* a datagram was dropped, and an announcement received later is registered
C14_Witness ==
    /\ discardedAt >= 0
    /\ lis.pc = "read"
    /\ \E r \in AllRegs(apiRegs) :
          /\ r.api = [name |-> "a", version |-> "1", ip |-> "10.0.0.1", port |-> 80]
          /\ r.timeRegistered > discardedAt

\* C17: every api in the remote map has a non-empty name and a non-empty
\* version.
C17_StoredApisNamed ==
    \A r \in AllRegs(apiRegs) : r.api.name # "" /\ r.api.version # ""

----------------------------------------------------------------------------
(* One name announced by three hosts, swept by the cleanup loop and asked  *)
(* for by a client.                                                        *)

\* The clock of this specification stops at MaxSweepTime.
MaxSweepTime == 2

SweepApis ==
    { [name |-> "a", version |-> "1", ip |-> "10.0.0.1", port |-> 80],
      [name |-> "a", version |-> "1", ip |-> "10.0.0.2", port |-> 80],
      [name |-> "a", version |-> "1", ip |-> "10.0.0.3", port |-> 80] }

SweepLifeSpans == {1, 2}

SweepTick ==
    /\ now < MaxSweepTime
    /\ now' = now + 1
    /\ UNCHANGED <<apiRegs, apisRWMutex, lis, cln, qry, ownedVars, envVars>>

SweepReceive == ListenReceiveOf(SweepApis, SweepLifeSpans)

NextSweep ==
    \/ SweepTick
    \/ SweepReceive
    \/ ListenUpdate
    \/ CleanupTick
    \/ CleanupScan
    \/ CleanupLock
    \/ CleanupPass
    \/ CleanupUnlock
    \/ QueryByName
    \/ QueryByNameReturn

SpecSweep == Init /\ [][NextSweep]_vars

\* the apis of a slice of registrations, in the order of the slice
ApisOf(regs) == [i \in DOMAIN regs |-> regs[i].api]

\* sub holds elements of full in the order they have in full
SubSeqOf(sub, full) ==
    \E f \in [DOMAIN sub -> DOMAIN full] :
        /\ \A i, j \in DOMAIN sub : i < j => f[i] < f[j]
        /\ \A i \in DOMAIN sub : full[f[i]] = sub[i]

\* C15: within a name the registrations stand in the order in which their
\* 4-tuples were inserted.  updateApis leaves the registrations that were
\* there at their positions (a refresh moves nothing, a new one is put
\* behind them); a cleanup pass keeps the registrations it retains in the
\* order they had; and GetApisByApiName returns apis in the order of the
\* slice.
C15_InsertionOrderKept ==
    [][/\ \A n \in DOMAIN apiRegs \cap DOMAIN apiRegs' :
             /\ IsListenUpdate =>
                   SubSeq(ApisOf(apiRegs'[n]), 1, Len(apiRegs[n])) = ApisOf(apiRegs[n])
             /\ IsCleanupPass => SubSeqOf(apiRegs'[n], apiRegs[n])
       /\ qry'.pc = "byName" =>
             SubSeqOf(qry'.parts[1].apis, ApisOf(RegsOf(apiRegs', qry'.parts[1].name)))]_vars

\* a cleanup pass has just removed an expired registration of "a" and kept
\* two active ones that were not refreshed since the scan
C15_Witness ==
    /\ cln.pc = "pass"
    /\ cln.expired = << >>
    /\ "a" \in DOMAIN apiRegs
    /\ Len(apiRegs["a"]) = 2
    /\ \A i \in 1..2 : apiRegs["a"][i].timeRegistered < cln.scanNow

\* the step that ends a cleanup cycle: the scan found nothing expired, or
\* the loop over the expired registrations is over and Unlock() is called
IsCleanupCycleEnd == cln.pc \in {"scan", "pass"} /\ cln'.pc = "wait"

\* C16: when a cleanup cycle completes, no registration that was inactive
\* when the cycle ran (expiry at or before the now the cycle read) is left
\* in the remote map, and no name is left with an empty collection.
C16_CycleLeavesOnlyActive ==
    [][IsCleanupCycleEnd =>
          /\ \A r \in AllRegs(apiRegs') : After(Expiry(r), cln.scanNow)
          /\ \A n \in DOMAIN apiRegs' : apiRegs'[n] # << >>]_vars

\* C19: a pass of the cleanup loop removes no registration that is active
\* at the moment of the pass, be it one the scan found expired and the
\* listener refreshed before the write lock was granted, or an active one
\* that shares its name with an expired one.
C19_CleanupKeepsActive ==
    [][IsCleanupPass =>
          \A r \in AllRegs(apiRegs) : After(Expiry(r), now) => r \in AllRegs(apiRegs')]_vars

\* the passes of a cycle are over and every announced tuple of "a" is still
\* registered: the registration the scan found expired was refreshed
\* before the cleanup loop got the write lock, and was retained
C19_Witness ==
    /\ cln.pc = "pass"
    /\ cln.expired = << >>
    /\ "a" \in DOMAIN apiRegs
    /\ { apiRegs["a"][i].api : i \in DOMAIN apiRegs["a"] } = SweepApis
    /\ \A i \in DOMAIN apiRegs["a"] : After(Expiry(apiRegs["a"][i]), now)

\* the announcement the listener is about to process has the 4-tuple of a
\* registration of the remote map
Sighted == \E r \in AllRegs(apiRegs) : r.api = lis.api

\* C20: when updateApis processes an announcement whose 4-tuple is already
\* registered, that registration gets the current time as its timestamp and
\* keeps its api and the lifespan of its first sighting, whatever lifespan
\* the announcement carries; every other registration of the name and every
\* other name of the remote map stay as they were.
C20_RefreshChangesTimestampOnly ==
    [][(IsListenUpdate /\ Sighted) =>
          LET n == lis.api.name
              old == apiRegs[n]
              k == CHOOSE i \in DOMAIN old : old[i].api = lis.api
          IN  /\ DOMAIN apiRegs' = DOMAIN apiRegs
              /\ \A m \in DOMAIN apiRegs \ {n} : apiRegs'[m] = apiRegs[m]
              /\ Len(apiRegs'[n]) = Len(old)
              /\ \A i \in DOMAIN old : i # k => apiRegs'[n][i] = old[i]
              /\ apiRegs'[n][k] = [old[k] EXCEPT !.timeRegistered = now]]_vars

\* updateApis has the write lock within reach for an announcement of a
\* registered 4-tuple that carries another lifespan than the registration,
\* at a later time, with another name and another version registered too
C20_Witness ==
    /\ lis.pc = "lock"
    /\ CanLock(apisRWMutex, "listener")
    /\ \E r \in AllRegs(apiRegs) :
          /\ r.api = lis.api
          /\ r.lifeSpan # lis.lifeSpan
          /\ r.timeRegistered < now
    /\ Cardinality(DOMAIN apiRegs) = 2
    /\ Len(apiRegs[lis.api.name]) = 2

----------------------------------------------------------------------------
(* The resend loop.                                                        *)

\* the step in which processRegResends starts its range over the owned map
IsResendTick == rsd.pc = "wait" /\ rsd'.pc = "send"

\* the step of one iteration of that range
IsResendSend == rsd.pc = "send" /\ rsd'.pc = "send" /\ rsd' # rsd

\* the step in which processRegResends returns
IsResendDone == rsd.pc = "send" /\ rsd'.pc = "wait"

\* C18: a resend tick sets out to send one announcement for each entry the
\* owned map holds at the tick; each iteration takes one of the entries
\* still to do, whatever the send returns, and what it writes carries that
\* entry's name, version and port; processRegResends returns only when no
\* entry is left to do; the owned map does not change while it runs and
\* never loses a name, so the next tick takes up every entry again.
C18_ResendAttemptsEveryEntry ==
    [][/\ IsResendTick => rsd'.todo = DOMAIN ownedRegs
       /\ IsResendSend =>
             \E n \in rsd.todo :
                 /\ rsd'.todo = rsd.todo \ {n}
                 /\ wire' # wire =>
                       /\ wire'.by = "resend"
                       /\ wire'.name = ownedRegs[n].name
                       /\ wire'.version = ownedRegs[n].version
                       /\ wire'.port = ownedRegs[n].port
       /\ IsResendDone => rsd.todo = {}
       /\ rsd.pc = "send" => ownedRegs' = ownedRegs
       /\ DOMAIN ownedRegs \subseteq DOMAIN ownedRegs']_vars

\* two entries are owned, the resend of one of them has just failed in
\* conn.Write, and the loop goes on with the other
C18_Witness ==
    /\ rsd.pc = "send"
    /\ Cardinality(DOMAIN ownedRegs) = 2
    /\ Cardinality(rsd.todo) = 1
    /\ wire.by = "resend"
    /\ wire.err = "write"
    /\ wire.name \in DOMAIN ownedRegs \ rsd.todo

====
